---------------------------- MODULE Spec2Model ----------------------------
(***************************************************************************)
(* A model of ybyra (src/ybyra.go, the program that starts at line 436):   *)
(* a terminal dashboard for the leases and reservations of a Kea DHCPv4    *)
(* server.  The state is the local state of main() (dispmode, sortorder,   *)
(* subnets, prev) and the state of the tview widgets main() creates (the   *)
(* subnet list, the table, the status line, the search input, the status   *)
(* pages and the focus).  There is one action per key or mouse command;    *)
(* each runs the whole chain of input captures the event goes through      *)
(* (grid, then the focused widget, then the widget's own handler).         *)
(*                                                                         *)
(* A text is a sequence of one-character strings, so that substring        *)
(* search, splitting, concatenation and address parsing are computed.      *)
(***************************************************************************)
EXTENDS Integers, Sequences, FiniteSets, TLC

(***************************************************************************)
(* Bounds of the model.                                                    *)
(***************************************************************************)
\* The subnets the server has configured.
MaxSubnets == 3
\* The leases the server holds for a subnet.
MaxLeases == 2
\* The columns the screen leaves the table to scroll to.
MaxOffset == 1
\* The length of a search text typed into statusinput.
MaxInput == 5
\* The command keys ('m', 'q', 'd') typed into statusinput.
MaxKeys == 1

(***************************************************************************)
(* Go library functions on strings and byte slices.                        *)
(***************************************************************************)
Min(a, b) == IF a < b THEN a ELSE b

\* strings.Contains(s, q): q occurs in s as a contiguous substring.
Contains(s, q) ==
    \/ q = <<>>
    \/ \E i \in 1..(Len(s) - Len(q) + 1) :
           s[i] = q[1] /\ SubSeq(s, i, i + Len(q) - 1) = q

\* strings.Split(s, c) for a one-character separator: the fields between
\* the separators (always at least one field).
Split(s, c) ==
    LET IsSep(i) == s[i] = c
        cut == <<0>> \o SelectSeq([i \in 1..Len(s) |-> i], IsSep) \o <<Len(s) + 1>>
    IN  [k \in 1..(Len(cut) - 1) |-> SubSeq(s, cut[k] + 1, cut[k + 1] - 1)]

DigitVal ==
    [c \in {"0", "1", "2", "3", "4", "5", "6", "7", "8", "9"} |->
        CASE c = "0" -> 0 [] c = "1" -> 1 [] c = "2" -> 2 [] c = "3" -> 3
          [] c = "4" -> 4 [] c = "5" -> 5 [] c = "6" -> 6 [] c = "7" -> 7
          [] c = "8" -> 8 [] c = "9" -> 9]

DigitChar == <<"0", "1", "2", "3", "4", "5", "6", "7", "8", "9">>

\* strconv.Itoa for a natural number.
RECURSIVE Itoa(_)
Itoa(n) == IF n < 10 THEN <<DigitChar[n + 1]>>
           ELSE Itoa(n \div 10) \o <<DigitChar[(n % 10) + 1]>>

\* The value of a decimal field of a dotted address, -1 if the field is not
\* a decimal number in 0..255 (empty, a non-digit, a leading zero, too big).
RECURSIVE DecValue(_)
DecValue(f) ==
    IF Len(f) = 0 THEN 0
    ELSE DecValue(SubSeq(f, 1, Len(f) - 1)) * 10 + DigitVal[f[Len(f)]]

Octet(f) ==
    IF /\ Len(f) \in 1..3
       /\ \A i \in 1..Len(f) : f[i] \in DOMAIN DigitVal
       /\ (Len(f) > 1 => f[1] # "0")
    THEN LET v == DecValue(f) IN IF v <= 255 THEN v ELSE -1
    ELSE -1

\* net.ParseIP for an IPv4 text: the four address bytes, or <<>> (nil) when
\* the text is not a dotted quad.  (The 12-byte prefix that ParseIP puts
\* before the four bytes is the same for every IPv4 address and is left out;
\* the model's texts contain no IPv6 address.)
ParseIP(s) ==
    LET f == Split(s, ".")
        o == [i \in 1..Len(f) |-> Octet(f[i])]
    IN  IF Len(f) = 4 /\ \A i \in 1..4 : o[i] >= 0 THEN o ELSE <<>>

\* bytes.Compare(a, b): lexicographic, a proper prefix is smaller.
RECURSIVE BytesCompare(_, _)
BytesCompare(a, b) ==
    IF Len(a) = 0 /\ Len(b) = 0 THEN 0
    ELSE IF Len(a) = 0 THEN -1
    ELSE IF Len(b) = 0 THEN 1
    ELSE IF a[1] < b[1] THEN -1
    ELSE IF a[1] > b[1] THEN 1
    ELSE BytesCompare(Tail(a), Tail(b))

\* The results sort.Slice may leave in place of s: sort.Slice is not a
\* stable sort, so every arrangement of s that is ordered by less.  The
\* less function is given as the set of the pairs <<a, b>> of elements for
\* which it returns true.
Perms(s) ==
    { [i \in 1..Len(s) |-> s[p[i]]] :
        p \in { q \in [1..Len(s) -> 1..Len(s)] :
                    \A i, j \in 1..Len(s) : i # j => q[i] # q[j] } }

Elements(s) == { s[i] : i \in 1..Len(s) }

SortSlice(s, less) ==
    { r \in Perms(s) : \A i \in 1..(Len(r) - 1) : <<r[i + 1], r[i]>> \notin less }

\* The orders sort.Slice may leave elements that compare equal in: as they
\* were in the slice, or the other way round.  Go sorts a slice of at most 12
\* elements by insertion, which keeps them; a longer slice goes through
\* pdqsort, which may move one past another.
TieOrders == {"kept", "swapped"}

\* The index of element e of the sequence s of distinct elements.
Pos(s, e) == CHOOSE i \in 1..Len(s) : s[i] = e

\* sort.Slice as a function: the arrangement of s ordered by less in which
\* the elements that compare equal are in the order ties.
SliceSorted(s, less, ties) ==
    { r \in SortSlice(s, less) :
        \A i, j \in 1..Len(r) :
            (i < j /\ <<r[i], r[j]>> \notin less /\ <<r[j], r[i]>> \notin less)
                => IF ties = "kept" THEN Pos(s, r[i]) < Pos(s, r[j])
                   ELSE Pos(s, r[i]) > Pos(s, r[j]) }


\* time.Duration(n) * time.Second, as Duration.String prints it.
DurationString(n) ==
    IF n < 60 THEN Itoa(n) \o <<"s">>
    ELSE IF n < 3600 THEN Itoa(n \div 60) \o <<"m">> \o Itoa(n % 60) \o <<"s">>
    ELSE Itoa(n \div 3600) \o <<"h">> \o Itoa((n % 3600) \div 60) \o <<"m">>
             \o Itoa(n % 60) \o <<"s">>

Pad2(n) == IF n < 10 THEN <<"0">> \o Itoa(n) ELSE Itoa(n)

\* time.Unix(cltt, 0).Format("2006-01-02T15:04:05") for a time of the first
\* day of the epoch, the local zone being UTC.
TimeFormat(cltt) ==
    <<"1", "9", "7", "0", "-", "0", "1", "-", "0", "1", "T">>
        \o Pad2(cltt \div 3600) \o <<":">> \o Pad2((cltt % 3600) \div 60)
        \o <<":">> \o Pad2(cltt % 60)

(***************************************************************************)
(* Constants of the program.                                               *)
(***************************************************************************)
displayLeases == 0
displayReserv == 1
displayInfo == 2

configGet == "config-get"
lease4GetAll == "lease4-get-all"
lease4Del == "lease4-del"

url == <<"h", "t", "t", "p", ":", "/", "/", "1", "2", "7", ".", "0", ".",
         "0", ".", "1", ":", "8", "0", "0", "0">>

PatternNotFound ==
    <<"P", "a", "t", "t", "e", "r", "n", " ", "n", "o", "t", " ", "f", "o",
      "u", "n", "d", " ", "\"">>

NotFoundText(q) == PatternNotFound \o q \o <<"\"">>

LeaseState(state) ==
    CASE state = 0 -> <<"d", "e", "f", "a", "u", "l", "t">>
      [] state = 1 -> <<"d", "e", "c", "l", "i", "n", "e", "d">>
      [] state = 2 -> <<"e", "x", "p", "i", "r", "e", "d", "-", "r", "e", "c",
                        "l", "a", "i", "m", "e", "d">>
      [] OTHER -> <<>>

(***************************************************************************)
(* The remote service: what the Kea control agent may answer.  The texts   *)
(* are chosen so that the searches of the model have matching and          *)
(* non-matching items, and the leases so that sorting reorders them.       *)
(***************************************************************************)
IpA == <<"1", "0", ".", "0", ".", "0", ".", "9">>
IpB == <<"1", "0", ".", "0", ".", "0", ".", "1", "0">>
IpC == <<"1", "0", ".", "0", ".", "0", ".", "2">>

Reservation(ip, hw, host) ==
    [IpAddress |-> ip, HwAddress |-> hw, Hostname |-> host,
     BootFileName |-> <<>>, NextServer |-> <<>>, ServerHostname |-> <<>>]

Subnet4(id, cidr, resv, pools) ==
    [Id |-> id, Subnet |-> cidr, Reservations |-> resv, Pools |-> pools,
     OptionData |-> <<>>, ValidLifetime |-> 90, RebindTimer |-> 45,
     RenewTimer |-> 30]

Lease4(host, ip, hw, state, cltt) ==
    [Hostname |-> host, IpAddress |-> ip, HwAddress |-> hw, State |-> state,
     Cltt |-> cltt, ClientId |-> <<>>]

\* The subnets of the server's configuration, in the order config-get
\* lists them (not sorted by address).  The pool of the third is written
\* as a prefix, which the server accepts as well as "first-last".
ConfigOrder ==
    << Subnet4(2, <<"1", "0", ".", "1", ".", "0", ".", "0", "/", "2", "4">>,
               <<>>, <<>>),
       Subnet4(1, <<"1", "0", ".", "0", ".", "0", ".", "0", "/", "2", "4">>,
               <<Reservation(IpA, <<"x">>, <<"r">>)>>,
               << <<"1", "0", ".", "0", ".", "0", ".", "1", "-",
                    "1", "0", ".", "0", ".", "0", ".", "9">> >>),
       Subnet4(3, <<"1", "0", ".", "1", ".", "1", ".", "0", "/", "2", "4">>,
               <<Reservation(IpC, <<"z">>, <<"s">>)>>,
               << <<"1", "0", ".", "1", ".", "1", ".", "0", "/", "2", "8">> >>),
       Subnet4(4, <<"1", "0", ".", "0", ".", "1", ".", "0", "/", "2", "4">>,
               <<>>, <<>>) >>

\* The answers to config-get: no subnet at all, or the first MaxSubnets.
Configs == { <<>>, SubSeq(ConfigOrder, 1, Min(MaxSubnets, Len(ConfigOrder))) }

\* The leases of the server, in the order lease4-get-all lists them.
LeaseOrder ==
    << Lease4(<<"a">>, IpA, <<"x">>, 0, 2),
       Lease4(<<"b">>, IpB, <<"y">>, 1, 2),
       Lease4(<<"a">>, IpC, <<"z">>, 2, 1) >>

\* The lease lists a well-formed answer to lease4-get-all may carry: no
\* lease at all, or the first MaxLeases.
LeaseLists == { <<>>, SubSeq(LeaseOrder, 1, Min(MaxLeases, Len(LeaseOrder))) }

\* How an exchange with the server may end: a well-formed answer, or one of
\* the failures of sendCommand and of the decoding that follows it.
Failures == {"transport", "undecodable", "empty-array", "missing-key"}

\* The answers to lease4-del: the result code and the text of element 0.
DelReplies ==
    { [Result |-> 0, Text |-> <<"I", "P", "v", "4", " ", "l", "e", "a", "s",
                                "e", " ", "d", "e", "l", "e", "t", "e", "d",
                                ".">>],
      [Result |-> 1, Text |-> <<"l", "e", "a", "s", "e", " ", "n", "o", "t",
                                " ", "f", "o", "u", "n", "d">>] }

\* What the operator types into the search input in one burst of keys.
Typed == { <<"0", ".", "1">>, <<"0", ".", "0", ".", "0">> }

\* The header cells of the lease table the mouse clicks in the model.
ClickColumns == {1, 4}

(***************************************************************************)
(* The state.                                                              *)
(*   phase         "init" before getSubnets, "running" in the event loop,  *)
(*                 "stopped" after app.Stop(), "panicked" after a panic    *)
(*   remoteConfig  the subnets the server lists for config-get             *)
(*   sortTies      how sort.Slice leaves elements that compare equal: it   *)
(*                 is not a stable sort, and the same for equal inputs     *)
(*   subnets       main's subnets slice (sorted at startup)                *)
(*   currentItem   the current item of subnetList (0-based, as in Go)      *)
(*   dispmode      main's dispmode                                         *)
(*   sortorder     main's sortorder slice (sortorder[1] is Go's [0])       *)
(*   table         the cells of the table: table[r + 1][c + 1] is the text *)
(*                 of cell (r, c); a cell never set has the empty text     *)
(*   shown         what the clicked functions of the header cells have     *)
(*                 captured: the dispmode and the subnet (an index of      *)
(*                 subnets) of the last UpdateTable, -1 before the first   *)
(*   title         the title of the table                                  *)
(*   selectedRow   the selected row of the table (0-based)                 *)
(*   rowsSelectable, columnOffset   of the table                           *)
(*   focus         the widget that has the focus                           *)
(*   prev          main's prev                                             *)
(*   page          the front page of statuspage                            *)
(*   statusline    the text of statusline                                  *)
(*   inputText     the text of statusinput                                 *)
(*   sent          the requests the last command sent to the server        *)
(*   reply         how the last exchange of the last command ended         *)
(***************************************************************************)
VARIABLES phase, remoteConfig, sortTies, subnets, currentItem, dispmode,
          sortorder, table, shown, title, selectedRow, rowsSelectable,
          columnOffset, focus, prev, page, statusline, inputText, sent, reply

vars == <<phase, remoteConfig, sortTies, subnets, currentItem, dispmode,
          sortorder, table, shown, title, selectedRow, rowsSelectable,
          columnOffset, focus, prev, page, statusline, inputText, sent, reply>>

NoReply == [kind |-> "none", result |-> 0, text |-> <<>>]
Reply(k) == [kind |-> k, result |-> 0, text |-> <<>>]
Request(c, a) == [command |-> c, arguments |-> a]

(***************************************************************************)
(* Lease ordering.                                                         *)
(***************************************************************************)
\* cmp for integers.
cmp(i, j) == IF i = j THEN 0 ELSE IF i < j THEN -1 ELSE 1

\* The order of the characters of the model's texts (their byte values).
CharCode(c) ==
    CASE c = "*" -> 42 [] c = "-" -> 45 [] c = "." -> 46 [] c = "/" -> 47
      [] c \in DOMAIN DigitVal -> 48 + DigitVal[c]
      [] c = "a" -> 97 [] c = "b" -> 98 [] c = "d" -> 100 [] c = "m" -> 109
      [] c = "q" -> 113 [] c = "r" -> 114 [] c = "s" -> 115 [] c = "x" -> 120
      [] c = "y" -> 121 [] c = "z" -> 122

\* cmp for strings: Go compares strings byte-wise.
cmpString(s, t) ==
    BytesCompare([i \in 1..Len(s) |-> CharCode(s[i])],
                 [i \in 1..Len(t) |-> CharCode(t[i])])

\* A variant of Compare that compares the addresses as texts; C21 must
\* tell it from Compare.
CompareLexical(l1, l2, field) ==
    CASE field = 0 -> cmpString(l1.Hostname, l2.Hostname)
      [] field = 1 -> cmpString(l1.IpAddress, l2.IpAddress)
      [] field = 2 -> cmpString(l1.HwAddress, l2.HwAddress)
      [] field = 3 -> cmp(l1.State, l2.State)
      [] field = 4 -> cmp(l1.Cltt, l2.Cltt)
      [] field = 5 -> cmpString(l1.ClientId, l2.ClientId)
      [] OTHER -> 0

\* Lease4.Compare
Compare(l1, l2, field) ==
    CASE field = 0 -> cmpString(l1.Hostname, l2.Hostname)
      [] field = 1 -> BytesCompare(ParseIP(l1.IpAddress), ParseIP(l2.IpAddress))
      [] field = 2 -> cmpString(l1.HwAddress, l2.HwAddress)
      [] field = 3 -> cmp(l1.State, l2.State)
      [] field = 4 -> cmp(l1.Cltt, l2.Cltt)
      [] field = 5 -> cmpString(l1.ClientId, l2.ClientId)
      [] OTHER -> 0

(***************************************************************************)
(* UpdateTable.                                                            *)
(***************************************************************************)
LeaseHeader ==
    << <<"H", "o", "s", "t", "n", "a", "m", "e">>, <<"I", "P">>,
       <<"M", "A", "C">>, <<"S", "t", "a", "t", "e">>,
       <<"T", "i", "m", "e", "s", "t", "a", "m", "p">>,
       <<"C", "l", "i", "e", "n", "t", " ", "I", "D">> >>

ReservHeader ==
    << <<"I", "P">>, <<"M", "A", "C">>,
       <<"H", "o", "s", "t", "n", "a", "m", "e">>,
       <<"B", "o", "o", "t", "f", "i", "l", "e">>,
       <<"N", "e", "x", "t", " ", "S", "e", "r", "v", "e", "r">>,
       <<"S", "e", "r", "v", "e", "r", " ", "H", "o", "s", "t", "n", "a", "m",
         "e">> >>

\* A variant of LeaseRow that marks a lease when any subnet has a
\* reservation of its address; C23 must tell it from LeaseRow.
LeaseRowAnySubnet(l, sn) ==
    LET prefix == IF \E s \in 1..Len(subnets) :
                        \E k \in 1..Len(subnets[s].Reservations) :
                            subnets[s].Reservations[k].IpAddress = l.IpAddress
                  THEN <<"*">> ELSE <<>>
    IN  << prefix \o l.Hostname, l.IpAddress, l.HwAddress, LeaseState(l.State),
           TimeFormat(l.Cltt), l.ClientId >>

\* The row of lease l in the table of subnet sn: the hostname is prefixed
\* with "*" (and shown bold) when a reservation of sn has the lease's address.
LeaseRow(l, sn) ==
    LET prefix == IF \E k \in 1..Len(sn.Reservations) :
                        sn.Reservations[k].IpAddress = l.IpAddress
                  THEN <<"*">> ELSE <<>>
    IN  << prefix \o l.Hostname, l.IpAddress, l.HwAddress, LeaseState(l.State),
           TimeFormat(l.Cltt), l.ClientId >>

ReservRow(r) ==
    << r.IpAddress, r.HwAddress, r.Hostname, r.BootFileName, r.NextServer,
       r.ServerHostname >>

T_Pool == <<"P", "o", "o", "l">>

\* The rows of the pools of the subnet information: two rows a pool, its
\* first and its last address.  ips[1] of a pool text without "-" is an
\* index out of range: ok is FALSE and the rows end with the cells set
\* before the panic.
RECURSIVE PoolRows(_)
PoolRows(pools) ==
    IF Len(pools) = 0 THEN [rows |-> <<>>, ok |-> TRUE]
    ELSE LET ips == Split(pools[1], "-")
             rest == PoolRows(Tail(pools))
         IN  IF Len(ips) < 2
             THEN [rows |-> << <<T_Pool, ips[1]>> >>, ok |-> FALSE]
             ELSE [rows |-> << <<T_Pool, ips[1]>>, << <<>>, ips[2]>> >>
                                \o rest.rows,
                   ok |-> rest.ok]

\* The rows of the option data of the subnet information, five rows an
\* option.
RECURSIVE OptionRows(_)
OptionRows(opts) ==
    IF Len(opts) = 0 THEN <<>>
    ELSE LET opt == opts[1]
         IN  << << <<"O", "p", "t", "i", "o", "n", "-", "d", "a", "t", "a">>,
                   <<"N", "a", "m", "e">>, opt.Name >>,
                << <<>>, <<"D", "a", "t", "a">>, opt.Data >>,
                << <<>>, <<"C", "o", "d", "e">>, Itoa(opt.Code) >>,
                << <<>>, <<"S", "p", "a", "c", "e">>, opt.Space >>,
                << <<>>, <<"C", "S", "V", "-", "F", "o", "r", "m", "a", "t">>,
                   IF opt.CsvFormat THEN <<"t", "r", "u", "e">>
                   ELSE <<"f", "a", "l", "s", "e">> >> >>
             \o OptionRows(Tail(opts))

InfoRows(sn) ==
    << << <<"S", "u", "b", "n", "e", "t">>, sn.Subnet >>,
       << <<"V", "a", "l", "i", "d", "-", "l", "i", "f", "e", "t", "i", "m",
            "e">>, DurationString(sn.ValidLifetime) >>,
       << <<"R", "e", "b", "i", "n", "d", "-", "t", "i", "m", "e", "r">>,
          DurationString(sn.RebindTimer) >>,
       << <<"R", "e", "n", "e", "w", "-", "t", "i", "m", "e", "r">>,
          DurationString(sn.RenewTimer) >>,
       << <<"I", "D">>, Itoa(sn.Id) >> >>

\* getLeases: the request for the leases of subnet id and the ways the
\* exchange may end.  A failure of sendCommand, a body json.Unmarshal
\* rejects, an empty array (grades[0]) and an element without "leases"
\* (json.Unmarshal of no bytes) all panic.
getLeases(id) ==
    { [kind |-> "ok", leases |-> ls] : ls \in LeaseLists }
        \cup { [kind |-> f, leases |-> <<>>] : f \in Failures }

\* A variant of LeaseLess that orders ascending whatever the direction of
\* so is; C20 must tell it from LeaseLess.
LeaseLessAscending(ls, so) ==
    { p \in Elements(ls) \X Elements(ls) :
          Compare(p[1], p[2], so[1].Column) < 0 }

\* The less function UpdateTable gives sort.Slice, as the set of the pairs
\* of leases of ls it holds for.
LeaseLess(ls, so) ==
    { p \in Elements(ls) \X Elements(ls) :
          IF so[1].Asc THEN Compare(p[1], p[2], so[1].Column) < 0
          ELSE Compare(p[1], p[2], so[1].Column) > 0 }

\* UpdateTable(url, dm, &subnets[k], table, &so): the set of its outcomes,
\* one for each answer of the server.
\*   table  the cells when it returns or panics
\*   ok     FALSE when it panics
\*   sent   the requests it sent
\*   reply  how its exchange ended
UpdateTable(dm, k, so) ==
    LET sn == subnets[k + 1]
    IN  CASE dm = displayLeases ->
               UNION { { [table |-> IF r.kind = "ok"
                                    THEN <<LeaseHeader>> \o
                                         [i \in 1..Len(ls) |->
                                             LeaseRow(ls[i], sn)]
                                    ELSE <<LeaseHeader>>,
                          ok |-> r.kind = "ok",
                          sent |-> <<Request(lease4GetAll, <<sn.Id>>)>>,
                          reply |-> Reply(r.kind)] :
                         ls \in SliceSorted(r.leases, LeaseLess(r.leases, so),
                                            sortTies) } :
                       r \in getLeases(sn.Id) }
          [] dm = displayReserv ->
               { [table |-> <<ReservHeader>> \o
                            [i \in 1..Len(sn.Reservations) |->
                                ReservRow(sn.Reservations[i])],
                  ok |-> TRUE, sent |-> <<>>, reply |-> NoReply] }
          [] dm = displayInfo ->
               LET pr == PoolRows(sn.Pools)
               IN  { [table |-> InfoRows(sn) \o pr.rows \o
                                (IF pr.ok THEN OptionRows(sn.OptionData)
                                 ELSE <<>>),
                      ok |-> pr.ok, sent |-> <<>>, reply |-> NoReply] }
          [] OTHER ->
               { [table |-> <<>>, ok |-> TRUE, sent |-> <<>>,
                  reply |-> NoReply] }

(***************************************************************************)
(* The tview widgets, as far as main uses them.                            *)
(***************************************************************************)
GetRowCount(t) == Len(t)

\* The number of columns of the widest row.
GetColumnCount(t) ==
    IF Len(t) = 0 THEN 0
    ELSE CHOOSE n \in { Len(t[i]) : i \in 1..Len(t) } :
            \A i \in 1..Len(t) : Len(t[i]) <= n

\* Table.GetCell(r, c).Text: tview returns an empty cell for a position
\* that was never set.
GetCell(t, r, c) ==
    IF r + 1 \in 1..Len(t) /\ c + 1 \in 1..Len(t[r + 1])
    THEN t[r + 1][c + 1] ELSE <<>>

\* The main text of item i (0-based) of subnetList: main adds one item a
\* subnet, in the order of subnets.
ItemText(i) == subnets[i + 1].Subnet

ListItems == [i \in 1..Len(subnets) |-> ItemText(i - 1)]

\* List.FindItems(q, "", false, false): the indices (0-based, ascending) of
\* the items whose main text contains q; tview returns none when both
\* search texts are empty, and never an item whose texts are empty.
FindItems(q) ==
    LET Match(i) == ItemText(i) # <<>> /\ Contains(ItemText(i), q)
    IN  IF q = <<>> THEN <<>>
        ELSE SelectSeq([i \in 1..Len(subnets) |-> i - 1], Match)

\* Whether row r of table t has a cell whose text contains q (the inner
\* loop of the table searches).
RowContains(t, r, q) ==
    \E j \in 0..(GetColumnCount(t) - 1) : Contains(GetCell(t, r, j), q)

(***************************************************************************)
(* The searches.  Each gives the new selection and the new status line.    *)
(***************************************************************************)
\* A variant of SearchForwardList whose scan starts at the current item
\* (indexes[j] >= curr); C4 must tell it from SearchForwardList.
SearchForwardListFromCurrent(q, curr) ==
    LET indexes == FindItems(q)
        after == { j \in 1..Len(indexes) : indexes[j] >= curr }
    IN  IF after # {}
        THEN [item |-> indexes[CHOOSE j \in after : \A k \in after : j <= k],
              line |-> <<"/">> \o q]
        ELSE [item |-> curr, line |-> NotFoundText(q)]

\* SearchForwardList: the first match after the current item.
SearchForwardList(q, curr) ==
    LET indexes == FindItems(q)
        after == { j \in 1..Len(indexes) : indexes[j] > curr }
    IN  IF after # {}
        THEN [item |-> indexes[CHOOSE j \in after : \A k \in after : j <= k],
              line |-> <<"/">> \o q]
        ELSE [item |-> curr, line |-> NotFoundText(q)]

\* The 'N' branch of the input capture of subnetList: at the first match
\* that is not before the current item and is not the first match, the
\* match before it is made current.
SearchBackwardList(q, curr) ==
    LET indexes == FindItems(q)
        hit == { j \in 2..Len(indexes) : indexes[j] >= curr }
    IN  IF hit # {}
        THEN LET j == CHOOSE h \in hit : \A k \in hit : h <= k
             IN  [item |-> indexes[j - 1],
                  line |-> IF indexes[j - 1] = curr THEN NotFoundText(q)
                           ELSE <<"?">> \o q]
        ELSE [item |-> curr, line |-> NotFoundText(q)]

\* A variant of SearchForwardTable whose scan starts at the selected row
\* (i := curr); C6 must tell it from SearchForwardTable.
SearchForwardTableFromCurrent(q, t, curr, selectable) ==
    LET rows == { i \in curr..(GetRowCount(t) - 1) : RowContains(t, i, q) }
    IN  IF rows # {}
        THEN [row |-> CHOOSE i \in rows : \A k \in rows : i <= k,
              selectable |-> TRUE, line |-> <<"/">> \o q]
        ELSE [row |-> curr, selectable |-> selectable,
              line |-> NotFoundText(q)]

\* SearchForwardTable: the first row below the selected row that has a
\* matching cell; it is selected and the rows are made selectable.
SearchForwardTable(q, t, curr, selectable) ==
    LET rows == { i \in (curr + 1)..(GetRowCount(t) - 1) : RowContains(t, i, q) }
    IN  IF rows # {}
        THEN [row |-> CHOOSE i \in rows : \A k \in rows : i <= k,
              selectable |-> TRUE, line |-> <<"/">> \o q]
        ELSE [row |-> curr, selectable |-> selectable,
              line |-> NotFoundText(q)]

\* A variant of the backward table search that scans the rows 1 up to
\* curr - 1 and so stops at the first match from the top; C5 must tell it
\* from SearchBackwardTable.
SearchBackwardTableFromTop(q, t, curr, selectable) ==
    LET rows == { i \in 1..(curr - 1) : RowContains(t, i, q) }
    IN  IF rows # {}
        THEN [row |-> CHOOSE i \in rows : \A k \in rows : i <= k,
              selectable |-> TRUE, line |-> <<"?">> \o q]
        ELSE [row |-> curr, selectable |-> selectable,
              line |-> NotFoundText(q)]

\* The 'N' branch of the input capture of the table: the rows curr - 1 down
\* to 1 (the loop ends at i > 0).
SearchBackwardTable(q, t, curr, selectable) ==
    LET rows == { i \in 1..(curr - 1) : RowContains(t, i, q) }
    IN  IF rows # {}
        THEN [row |-> CHOOSE i \in rows : \A k \in rows : i >= k,
              selectable |-> TRUE, line |-> <<"?">> \o q]
        ELSE [row |-> curr, selectable |-> selectable,
              line |-> NotFoundText(q)]

(***************************************************************************)
(* Startup: main up to app.Run().                                          *)
(***************************************************************************)
\* The comparison main gives sort.Slice for the subnets.
SubnetLess ==
    { p \in Elements(remoteConfig) \X Elements(remoteConfig) :
          BytesCompare(ParseIP(Split(p[1].Subnet, "/")[1]),
                       ParseIP(Split(p[2].Subnet, "/")[1])) < 0 }

TitleOf(dm) ==
    CASE dm = displayLeases -> "Leases"
      [] dm = displayReserv -> "Reservations"
      [] dm = displayInfo -> "Subnet Information"
      [] OTHER -> "?"

\* The state when main has built its widgets, whatever sort.Slice does.
InitMain ==
    /\ phase = "init"
    /\ remoteConfig \in Configs
    /\ subnets = <<>>
    /\ currentItem = 0
    /\ dispmode = displayLeases
    /\ sortorder = << [Column |-> 4, Asc |-> TRUE], [Column |-> 1, Asc |-> TRUE] >>
    /\ table = <<>>
    /\ shown = [mode |-> -1, subnet |-> -1]
    /\ title = "Leases"
    /\ selectedRow = 0
    /\ rowsSelectable = FALSE
    /\ columnOffset = 0
    /\ focus = "subnetList"
    /\ prev = "subnetList"
    /\ page = "line"
    /\ statusline = url
    /\ inputText = <<>>
    /\ sent = <<>>
    /\ reply = NoReply

\* The lease lists of the model are short: sort.Slice keeps their ties.
Init == InitMain /\ sortTies = "kept"

\* The same with either order of ties, which stands for the longer lists
\* sort.Slice does not sort by insertion.
InitSort == InitMain /\ sortTies \in TieOrders

\* A variant of Startup that ignores the error of getSubnets and goes on
\* with no subnets; C8 must tell it from Startup.
StartupLenient ==
    /\ phase = "init"
    /\ \E k \in {"ok"} \cup Failures :
          /\ sent' = <<Request(configGet, <<>>)>>
          /\ reply' = Reply(k)
          /\ subnets' \in IF k = "ok" THEN SortSlice(remoteConfig, SubnetLess)
                          ELSE {<<>>}
          /\ phase' = "running"
    /\ UNCHANGED <<remoteConfig, sortTies, currentItem, dispmode, sortorder, table,
                   shown, title, selectedRow, rowsSelectable, columnOffset,
                   focus, prev, page, statusline, inputText>>

\* A variant of Startup that leaves the subnets in the order the server
\* listed them; C22 must tell it from Startup.
StartupUnsorted ==
    /\ phase = "init"
    /\ \E k \in {"ok"} \cup Failures :
          /\ sent' = <<Request(configGet, <<>>)>>
          /\ reply' = Reply(k)
          /\ IF k = "ok"
             THEN /\ subnets' = remoteConfig
                  /\ phase' = "running"
             ELSE /\ subnets' = subnets
                  /\ phase' = "panicked"
    /\ UNCHANGED <<remoteConfig, sortTies, currentItem, dispmode, sortorder,
                   table, shown, title, selectedRow, rowsSelectable,
                   columnOffset, focus, prev, page, statusline, inputText>>

\* getSubnets and the sort of the subnets.  Every failure of the exchange
\* panics: an element without "Dhcp4", or a Dhcp4 without "subnet4", is a
\* json.Unmarshal of no bytes.
Startup ==
    /\ phase = "init"
    /\ \E k \in {"ok"} \cup Failures :
          /\ sent' = <<Request(configGet, <<>>)>>
          /\ reply' = Reply(k)
          /\ IF k = "ok"
             THEN /\ subnets' \in SortSlice(remoteConfig, SubnetLess)
                  /\ phase' = "running"
             ELSE /\ subnets' = subnets
                  /\ phase' = "panicked"
    /\ UNCHANGED <<remoteConfig, sortTies, currentItem, dispmode, sortorder, table,
                   shown, title, selectedRow, rowsSelectable, columnOffset,
                   focus, prev, page, statusline, inputText>>

(***************************************************************************)
(* The commands of the event loop.  A key event goes to the input capture  *)
(* of the grid, then to the input capture of the widget that has the       *)
(* focus, then to the widget's own handler; a capture that returns nil     *)
(* ends the chain.                                                         *)
(***************************************************************************)
Running == phase = "running"

OnPanel == focus \in {"subnetList", "table"}

\* The effect of a call of UpdateTable with outcome o for dispmode dm and
\* subnet k: the cells, the captured arguments of the clicked functions,
\* the exchange, and ScrollToBeginning when it returns.
Rebuild(o, dm, k) ==
    /\ table' = o.table
    /\ shown' = [mode |-> dm, subnet |-> k]
    /\ sent' = o.sent
    /\ reply' = o.reply
    /\ phase' = IF o.ok THEN phase ELSE "panicked"
    /\ columnOffset' = IF o.ok THEN 0 ELSE columnOffset

\* A key that ends without an exchange with the server.
Quiet == sent' = <<>> /\ reply' = NoReply

\* A variant of SelectSubnet that rebuilds the table for the first subnet
\* whatever the current item is; C16 must tell it from SelectSubnet.
SelectSubnetFirst ==
    /\ Running /\ focus = "subnetList"
    /\ IF Len(subnets) = 0
       THEN /\ Quiet
            /\ UNCHANGED <<table, shown, phase, columnOffset>>
       ELSE \E o \in UpdateTable(dispmode, 0, sortorder) :
               Rebuild(o, dispmode, 0)
    /\ UNCHANGED <<remoteConfig, sortTies, subnets, currentItem, dispmode, sortorder,
                   title, selectedRow, rowsSelectable, focus, prev, page,
                   statusline, inputText>>

\* Enter on subnetList: the selected function of the list.  The list
\* handler ignores the key when the list is empty.
SelectSubnet ==
    /\ Running /\ focus = "subnetList"
    /\ IF Len(subnets) = 0
       THEN /\ Quiet
            /\ UNCHANGED <<table, shown, phase, columnOffset>>
       ELSE \E o \in UpdateTable(dispmode, currentItem, sortorder) :
               Rebuild(o, dispmode, currentItem)
    /\ UNCHANGED <<remoteConfig, sortTies, subnets, currentItem, dispmode, sortorder,
                   title, selectedRow, rowsSelectable, focus, prev, page,
                   statusline, inputText>>

\* A variant of Cycle that changes dispmode and the table and leaves the
\* title as it is; C15 must tell it from Cycle.
CycleKeepsTitle ==
    /\ dispmode' = (dispmode + 1) % 3
    /\ title' = title
    /\ IF Len(subnets) = 0
       THEN /\ phase' = "panicked"
            /\ Quiet
            /\ UNCHANGED <<table, shown, columnOffset>>
       ELSE \E o \in UpdateTable(dispmode', currentItem, sortorder) :
               Rebuild(o, dispmode', currentItem)

\* 'm' in the grid's input capture: dispmode is cycled, the table is
\* rebuilt for the current item of subnetList and the title is set;
\* subnets[0] of an empty slice panics.
Cycle ==
    /\ dispmode' = (dispmode + 1) % 3
    /\ IF Len(subnets) = 0
       THEN /\ phase' = "panicked"
            /\ Quiet
            /\ UNCHANGED <<table, shown, columnOffset, title>>
       ELSE \E o \in UpdateTable(dispmode', currentItem, sortorder) :
               /\ Rebuild(o, dispmode', currentItem)
               /\ title' = IF o.ok THEN TitleOf(dispmode') ELSE title

\* A variant of CycleMode that puts sortorder back to what main starts
\* with; C17 must tell it from CycleMode.
CycleModeResetsSort ==
    /\ Running /\ OnPanel
    /\ Cycle
    /\ sortorder' = << [Column |-> 4, Asc |-> TRUE],
                       [Column |-> 1, Asc |-> TRUE] >>
    /\ UNCHANGED <<remoteConfig, sortTies, subnets, currentItem, selectedRow,
                   rowsSelectable, focus, prev, page, statusline, inputText>>

\* 'm' on a panel: the grid's input capture returns the event, and neither
\* the list nor the table has a binding for the rune.
CycleMode ==
    /\ Running /\ OnPanel
    /\ Cycle
    /\ UNCHANGED <<remoteConfig, sortTies, subnets, currentItem, sortorder, selectedRow,
                   rowsSelectable, focus, prev, page, statusline, inputText>>

\* 'm' with the focus on statusinput: the grid's input capture runs all the
\* same, and the event it returns is typed into the input field.
TypeM ==
    /\ Running /\ focus = "statusinput"
    /\ Len(inputText) < MaxKeys
    /\ Cycle
    /\ inputText' = IF phase' = "running" THEN inputText \o <<"m">>
                    ELSE inputText
    /\ UNCHANGED <<remoteConfig, sortTies, subnets, currentItem, sortorder, selectedRow,
                   rowsSelectable, focus, prev, page, statusline>>

\* A variant of sortfunc that sets the direction to ascending instead of
\* flipping it; C18 must tell it from sortfunc.
sortfuncAscending(so, col) ==
    [so EXCEPT ![1] = [Column |-> col, Asc |-> TRUE]]

\* What the clicked function sortfunc(col) assigns to sortorder.
sortfunc(so, col) ==
    [so EXCEPT ![1] = [Column |-> col, Asc |-> ~so[1].Asc]]

\* A click on header cell col of the lease table: the clicked function
\* sortfunc(col) of the last UpdateTable.  The table takes the focus on a
\* click, and as the function returns false the clicked cell is selected
\* when rows are selectable.
SortToggle(col) ==
    /\ Running /\ OnPanel
    /\ shown.mode = displayLeases /\ Len(table) > 0
    /\ sortorder' = sortfunc(sortorder, col)
    /\ \E o \in UpdateTable(shown.mode, shown.subnet, sortorder') :
          Rebuild(o, shown.mode, shown.subnet)
    /\ focus' = "table"
    /\ selectedRow' = IF rowsSelectable THEN 0 ELSE selectedRow
    /\ UNCHANGED <<remoteConfig, sortTies, subnets, currentItem, dispmode, title,
                   rowsSelectable, prev, page, statusline, inputText>>

\* Tab on a panel.
FocusTab ==
    /\ Running /\ OnPanel
    /\ focus' = IF focus = "subnetList" THEN "table" ELSE "subnetList"
    /\ Quiet
    /\ UNCHANGED <<phase, remoteConfig, sortTies, subnets, currentItem, dispmode,
                   sortorder, table, shown, title, selectedRow, rowsSelectable,
                   columnOffset, prev, page, statusline, inputText>>

\* 'l' or Right on a panel: subnetList gives the focus to the table; the
\* table passes the key to its handler, which scrolls a column to the right
\* (as far as the screen leaves columns to scroll to).
NavRight ==
    /\ Running /\ OnPanel
    /\ IF focus = "subnetList"
       THEN focus' = "table" /\ UNCHANGED columnOffset
       ELSE /\ columnOffset' = Min(columnOffset + 1, MaxOffset)
            /\ UNCHANGED focus
    /\ Quiet
    /\ UNCHANGED <<phase, remoteConfig, sortTies, subnets, currentItem, dispmode,
                   sortorder, table, shown, title, selectedRow, rowsSelectable,
                   prev, page, statusline, inputText>>

\* A variant of NavLeft without the test of the column offset: the table
\* always gives the focus to subnetList; C10 must tell it from NavLeft.
NavLeftAnyOffset ==
    /\ Running /\ OnPanel
    /\ IF focus = "table"
       THEN focus' = "subnetList" /\ UNCHANGED columnOffset
       ELSE UNCHANGED <<focus, columnOffset>>
    /\ Quiet
    /\ UNCHANGED <<phase, remoteConfig, sortTies, subnets, currentItem, dispmode,
                   sortorder, table, shown, title, selectedRow, rowsSelectable,
                   prev, page, statusline, inputText>>

\* 'h' or Left on a panel: the table gives the focus to subnetList when its
\* column offset is below 1, and otherwise passes the key to its handler,
\* which scrolls a column to the left.  subnetList has no binding for 'h'.
NavLeft ==
    /\ Running /\ OnPanel
    /\ IF focus = "table"
       THEN IF columnOffset < 1
            THEN focus' = "subnetList" /\ UNCHANGED columnOffset
            ELSE columnOffset' = columnOffset - 1 /\ UNCHANGED focus
       ELSE UNCHANGED <<focus, columnOffset>>
    /\ Quiet
    /\ UNCHANGED <<phase, remoteConfig, sortTies, subnets, currentItem, dispmode,
                   sortorder, table, shown, title, selectedRow, rowsSelectable,
                   prev, page, statusline, inputText>>

\* 'j'/Down (d = 1) and 'k'/Up (d = -1).  subnetList moves its current item
\* and wraps around; the table moves its selected row between the first and
\* the last row when rows are selectable.
MoveBy(d) ==
    /\ Running /\ OnPanel
    /\ IF focus = "subnetList"
       THEN /\ currentItem' = IF Len(subnets) = 0 THEN currentItem
                              ELSE (currentItem + d + Len(subnets)) % Len(subnets)
            /\ UNCHANGED selectedRow
       ELSE /\ selectedRow' =
                 IF rowsSelectable /\ GetRowCount(table) > 0
                 THEN IF d = 1
                      THEN Min(selectedRow + 1, GetRowCount(table) - 1)
                      ELSE IF selectedRow > 0 THEN selectedRow - 1 ELSE 0
                 ELSE selectedRow
            /\ UNCHANGED currentItem
    /\ Quiet
    /\ UNCHANGED <<phase, remoteConfig, sortTies, subnets, dispmode, sortorder, table,
                   shown, title, rowsSelectable, columnOffset, focus, prev,
                   page, statusline, inputText>>

\* Enter on the table: the input capture toggles row selection.
ToggleSelectable ==
    /\ Running /\ focus = "table"
    /\ rowsSelectable' = ~rowsSelectable
    /\ Quiet
    /\ UNCHANGED <<phase, remoteConfig, sortTies, subnets, currentItem, dispmode,
                   sortorder, table, shown, title, selectedRow, columnOffset,
                   focus, prev, page, statusline, inputText>>

\* 'n' on a panel: the forward search of the panel with the text of
\* statusinput.
SearchNext ==
    /\ Running /\ OnPanel
    /\ Quiet
    /\ UNCHANGED <<phase, remoteConfig, sortTies, subnets, dispmode, sortorder, table,
                   shown, title, columnOffset, focus, prev, page, inputText>>
    /\ IF focus = "subnetList"
       THEN LET r == SearchForwardList(inputText, currentItem)
            IN  /\ currentItem' = r.item
                /\ statusline' = r.line
                /\ UNCHANGED <<selectedRow, rowsSelectable>>
       ELSE LET r == SearchForwardTable(inputText, table, selectedRow,
                                        rowsSelectable)
            IN  /\ selectedRow' = r.row
                /\ rowsSelectable' = r.selectable
                /\ statusline' = r.line
                /\ UNCHANGED currentItem

\* 'N' on a panel: the backward search of the panel.
SearchPrev ==
    /\ Running /\ OnPanel
    /\ Quiet
    /\ UNCHANGED <<phase, remoteConfig, sortTies, subnets, dispmode, sortorder, table,
                   shown, title, columnOffset, focus, prev, page, inputText>>
    /\ IF focus = "subnetList"
       THEN LET r == SearchBackwardList(inputText, currentItem)
            IN  /\ currentItem' = r.item
                /\ statusline' = r.line
                /\ UNCHANGED <<selectedRow, rowsSelectable>>
       ELSE LET r == SearchBackwardTable(inputText, table, selectedRow,
                                         rowsSelectable)
            IN  /\ selectedRow' = r.row
                /\ rowsSelectable' = r.selectable
                /\ statusline' = r.line
                /\ UNCHANGED currentItem

\* '/' on a panel: the input page replaces the status line, the panel is
\* remembered in prev and statusinput takes the focus.
EnterSearch ==
    /\ Running /\ OnPanel
    /\ page' = "input"
    /\ prev' = focus
    /\ focus' = "statusinput"
    /\ Quiet
    /\ UNCHANGED <<phase, remoteConfig, sortTies, subnets, currentItem, dispmode,
                   sortorder, table, shown, title, selectedRow, rowsSelectable,
                   columnOffset, statusline, inputText>>

\* Keys typed into statusinput, a burst at a time.
Type(chunk) ==
    /\ Running /\ focus = "statusinput"
    /\ Len(inputText) + Len(chunk) <= MaxInput
    /\ inputText' = inputText \o chunk
    /\ Quiet
    /\ UNCHANGED <<phase, remoteConfig, sortTies, subnets, currentItem, dispmode,
                   sortorder, table, shown, title, selectedRow, rowsSelectable,
                   columnOffset, focus, prev, page, statusline>>

\* Ctrl-U in statusinput: the input field deletes its text.
ClearInput ==
    /\ Running /\ focus = "statusinput"
    /\ inputText' = <<>>
    /\ Quiet
    /\ UNCHANGED <<phase, remoteConfig, sortTies, subnets, currentItem, dispmode,
                   sortorder, table, shown, title, selectedRow, rowsSelectable,
                   columnOffset, focus, prev, page, statusline>>

\* A variant of CommitSearch that searches the subnet list whatever panel
\* prev names; C12 must tell it from CommitSearch.
CommitSearchList ==
    /\ Running /\ focus = "statusinput"
    /\ page' = "line"
    /\ focus' = prev
    /\ Quiet
    /\ UNCHANGED <<phase, remoteConfig, sortTies, subnets, dispmode, sortorder, table,
                   shown, title, columnOffset, prev, inputText>>
    /\ LET r == SearchForwardList(inputText, currentItem)
       IN  /\ currentItem' = r.item
           /\ statusline' = r.line
           /\ UNCHANGED <<selectedRow, rowsSelectable>>

\* Enter or Tab in statusinput: the finished function of statusinput.
CommitSearch ==
    /\ Running /\ focus = "statusinput"
    /\ page' = "line"
    /\ focus' = prev
    /\ Quiet
    /\ UNCHANGED <<phase, remoteConfig, sortTies, subnets, dispmode, sortorder, table,
                   shown, title, columnOffset, prev, inputText>>
    /\ IF prev = "subnetList"
       THEN LET r == SearchForwardList(inputText, currentItem)
            IN  /\ currentItem' = r.item
                /\ statusline' = r.line
                /\ UNCHANGED <<selectedRow, rowsSelectable>>
       ELSE LET r == SearchForwardTable(inputText, table, selectedRow,
                                        rowsSelectable)
            IN  /\ selectedRow' = r.row
                /\ rowsSelectable' = r.selectable
                /\ statusline' = r.line
                /\ UNCHANGED currentItem

\* A variant of CancelSearch that runs the forward search of prev as the
\* finished function does; C13 must tell it from CancelSearch.
CancelSearchCommits ==
    /\ Running /\ focus = "statusinput"
    /\ page' = "line"
    /\ focus' = prev
    /\ Quiet
    /\ UNCHANGED <<phase, remoteConfig, sortTies, subnets, dispmode, sortorder, table,
                   shown, title, columnOffset, prev, inputText>>
    /\ IF prev = "subnetList"
       THEN LET r == SearchForwardList(inputText, currentItem)
            IN  /\ currentItem' = r.item
                /\ statusline' = r.line
                /\ UNCHANGED <<selectedRow, rowsSelectable>>
       ELSE LET r == SearchForwardTable(inputText, table, selectedRow,
                                        rowsSelectable)
            IN  /\ selectedRow' = r.row
                /\ rowsSelectable' = r.selectable
                /\ statusline' = r.line
                /\ UNCHANGED currentItem

\* Escape in statusinput: the grid's input capture lets it through as
\* statuspage has the focus, and the input capture of statusinput shows the
\* status line again and gives the focus back to prev.
CancelSearch ==
    /\ Running /\ focus = "statusinput"
    /\ page' = "line"
    /\ focus' = prev
    /\ Quiet
    /\ UNCHANGED <<phase, remoteConfig, sortTies, subnets, currentItem, dispmode,
                   sortorder, table, shown, title, selectedRow, rowsSelectable,
                   columnOffset, prev, statusline, inputText>>

\* 'q' or Escape on a panel: the grid's input capture stops the application.
Quit ==
    /\ Running /\ OnPanel
    /\ phase' = "stopped"
    /\ Quiet
    /\ UNCHANGED <<remoteConfig, sortTies, subnets, currentItem, dispmode, sortorder,
                   table, shown, title, selectedRow, rowsSelectable,
                   columnOffset, focus, prev, page, statusline, inputText>>

\* A variant of TypeQ in which the grid's input capture stops the
\* application whatever has the focus; C11 must tell it from TypeQ.
TypeQStops ==
    /\ Running /\ focus = "statusinput"
    /\ Len(inputText) < MaxKeys
    /\ phase' = "stopped"
    /\ Quiet
    /\ UNCHANGED <<remoteConfig, sortTies, subnets, currentItem, dispmode, sortorder,
                   table, shown, title, selectedRow, rowsSelectable,
                   columnOffset, focus, prev, page, statusline, inputText>>

\* 'q' in statusinput: statuspage has the focus, so the grid's input capture
\* lets the rune through and it is typed into the input field.
TypeQ ==
    /\ Running /\ focus = "statusinput"
    /\ Len(inputText) < MaxKeys
    /\ inputText' = inputText \o <<"q">>
    /\ Quiet
    /\ UNCHANGED <<phase, remoteConfig, sortTies, subnets, currentItem, dispmode,
                   sortorder, table, shown, title, selectedRow, rowsSelectable,
                   columnOffset, focus, prev, page, statusline>>

\* DelLease(url, ip): the ways its exchange may end.  It reads no key of
\* "arguments": an element that lacks "text" decodes as the empty text.
DelLease(ip) ==
    { [kind |-> "ok", result |-> d.Result, text |-> d.Text] : d \in DelReplies }
        \cup { Reply(f) : f \in Failures \ {"missing-key"} }

\* A variant of Delete that takes a nonzero result for a failure and
\* panics; C7 must tell it from Delete.
DeleteStrict ==
    /\ Running /\ OnPanel
    /\ IF focus = "table" /\ rowsSelectable /\ dispmode = displayLeases
       THEN \E r \in DelLease(GetCell(table, selectedRow, 1)) :
               /\ sent' = <<Request(lease4Del, GetCell(table, selectedRow, 1))>>
               /\ reply' = r
               /\ IF r.kind = "ok" /\ r.result = 0
                  THEN statusline' = r.text /\ UNCHANGED phase
                  ELSE phase' = "panicked" /\ UNCHANGED statusline
       ELSE /\ Quiet
            /\ UNCHANGED <<phase, statusline>>
    /\ UNCHANGED <<remoteConfig, sortTies, subnets, currentItem, dispmode, sortorder,
                   table, shown, title, selectedRow, rowsSelectable,
                   columnOffset, focus, prev, page, inputText>>

\* A variant of Delete without the test of dispmode; C9 must tell it from
\* Delete.
DeleteAnyMode ==
    /\ Running /\ OnPanel
    /\ IF focus = "table" /\ rowsSelectable
       THEN \E r \in DelLease(GetCell(table, selectedRow, 1)) :
               /\ sent' = <<Request(lease4Del, GetCell(table, selectedRow, 1))>>
               /\ reply' = r
               /\ IF r.kind = "ok"
                  THEN statusline' = r.text /\ UNCHANGED phase
                  ELSE phase' = "panicked" /\ UNCHANGED statusline
       ELSE /\ Quiet
            /\ UNCHANGED <<phase, statusline>>
    /\ UNCHANGED <<remoteConfig, sortTies, subnets, currentItem, dispmode, sortorder,
                   table, shown, title, selectedRow, rowsSelectable,
                   columnOffset, focus, prev, page, inputText>>

\* 'd' on a panel: on the table, with selectable rows and in lease mode, the
\* input capture deletes the lease whose address is in column 1 of the
\* selected row and shows the text of the answer.  Otherwise neither the
\* table nor the list has a binding for the rune.
Delete ==
    /\ Running /\ OnPanel
    /\ IF focus = "table" /\ rowsSelectable /\ dispmode = displayLeases
       THEN \E r \in DelLease(GetCell(table, selectedRow, 1)) :
               /\ sent' = <<Request(lease4Del, GetCell(table, selectedRow, 1))>>
               /\ reply' = r
               /\ IF r.kind = "ok"
                  THEN statusline' = r.text /\ UNCHANGED phase
                  ELSE phase' = "panicked" /\ UNCHANGED statusline
       ELSE /\ Quiet
            /\ UNCHANGED <<phase, statusline>>
    /\ UNCHANGED <<remoteConfig, sortTies, subnets, currentItem, dispmode, sortorder,
                   table, shown, title, selectedRow, rowsSelectable,
                   columnOffset, focus, prev, page, inputText>>

\* 'd' in statusinput: the rune is typed into the input field.
TypeD ==
    /\ Running /\ focus = "statusinput"
    /\ Len(inputText) < MaxKeys
    /\ inputText' = inputText \o <<"d">>
    /\ Quiet
    /\ UNCHANGED <<phase, remoteConfig, sortTies, subnets, currentItem, dispmode,
                   sortorder, table, shown, title, selectedRow, rowsSelectable,
                   columnOffset, focus, prev, page, statusline>>

(***************************************************************************)
(* The specifications.  The whole program is Init and the disjunction of   *)
(* all the actions above; it is checked in five parts, each a session in   *)
(* which the operator uses a part of the commands:                         *)
(*   Spec        showing, sorting and deleting leases                      *)
(*   SpecNav     moving the focus and scrolling the table sideways         *)
(*   SpecSearch  the search input and the searches for a typed text        *)
(*   SpecKeys    the command keys 'm', 'q' and 'd' on the panels and in    *)
(*               the search input                                          *)
(*   SpecSort    sorting the leases, with either order of ties, among the  *)
(*               commands that leave the sort order alone                  *)
(***************************************************************************)
Next ==
    \/ Startup
    \/ SelectSubnet
    \/ CycleMode
    \/ \E col \in ClickColumns : SortToggle(col)
    \/ FocusTab
    \/ \E d \in {1, -1} : MoveBy(d)
    \/ ToggleSelectable
    \/ Delete

Spec == Init /\ [][Next]_vars

NextNav ==
    \/ Startup
    \/ SelectSubnet
    \/ CycleMode
    \/ FocusTab
    \/ NavRight
    \/ NavLeft
    \/ \E d \in {1, -1} : MoveBy(d)

SpecNav == Init /\ [][NextNav]_vars

NextSearch ==
    \/ Startup
    \/ SelectSubnet
    \/ CycleMode
    \/ FocusTab
    \/ \E d \in {1, -1} : MoveBy(d)
    \/ ToggleSelectable
    \/ SearchNext
    \/ SearchPrev
    \/ EnterSearch
    \/ \E chunk \in Typed : Type(chunk)
    \/ ClearInput
    \/ CommitSearch
    \/ CancelSearch

SpecSearch == Init /\ [][NextSearch]_vars

NextKeys ==
    \/ Startup
    \/ SelectSubnet
    \/ CycleMode
    \/ FocusTab
    \/ ToggleSelectable
    \/ SearchNext
    \/ EnterSearch
    \/ CommitSearch
    \/ CancelSearch
    \/ TypeM
    \/ TypeQ
    \/ TypeD
    \/ Delete
    \/ Quit

SpecKeys == Init /\ [][NextKeys]_vars

NextSort ==
    \/ Startup
    \/ SelectSubnet
    \/ CycleMode
    \/ \E col \in ClickColumns : SortToggle(col)
    \/ FocusTab
    \/ SearchNext
    \/ Delete

SpecSort == InitSort /\ [][NextSort]_vars

(***************************************************************************)
(* The claims of the specification, C1 to C27.                             *)
(***************************************************************************)
\* Whether item i (0-based) of subnetList contains q, by strings.Contains.
ItemContains(i, q) == Contains(ItemText(i), q)

MatchesBefore(q) ==
    { i \in 0..(currentItem - 1) : i < Len(subnets) /\ ItemContains(i, q) }

MatchesAfter(q) ==
    { i \in (currentItem + 1)..(Len(subnets) - 1) : ItemContains(i, q) }

\* Whether row i of the table has a cell that contains q.
RowMatches(i, q) ==
    \E j \in 0..(GetColumnCount(table) - 1) : Contains(GetCell(table, i, j), q)

Least(S) == CHOOSE i \in S : \A k \in S : i <= k
Greatest(S) == CHOOSE i \in S : \A k \in S : i >= k

FoundForward == <<"/">> \o inputText
FoundBackward == <<"?">> \o inputText

ForwardListSearch ==
    \/ focus = "subnetList" /\ SearchNext
    \/ focus = "statusinput" /\ prev = "subnetList" /\ CommitSearch

BackwardListSearch == focus = "subnetList" /\ SearchPrev

ForwardTableSearch ==
    \/ focus = "table" /\ SearchNext
    \/ focus = "statusinput" /\ prev = "table" /\ CommitSearch

BackwardTableSearch == focus = "table" /\ SearchPrev

\* C1: a click on header column col of the lease table makes the primary
\* sort key (col, the other direction) when col is already the primary
\* column, and (col, ascending) when it is another column.
C1_ToggleOrAscending ==
    [][\A col \in ClickColumns :
          SortToggle(col) =>
              sortorder'[1] =
                  IF col = sortorder[1].Column
                  THEN [Column |-> col, Asc |-> ~sortorder[1].Asc]
                  ELSE [Column |-> col, Asc |-> TRUE]]_vars

\* C2: a backward search ('N') on the subnet list for the text q, from the
\* current item c, selects the greatest index below c whose item contains
\* q, and reports that the pattern was not found only when no item before c
\* contains q.  (Stated for a text that is not empty, so that it does not
\* rest on what the list makes of the empty text.)
C2_BackwardListNearest ==
    [][(BackwardListSearch /\ inputText # <<>>) =>
          LET b == MatchesBefore(inputText)
          IN  /\ b # {} => /\ currentItem' = Greatest(b)
                           /\ statusline' = FoundBackward
              /\ statusline' = NotFoundText(inputText) => b = {}]_vars

\* C3: a backward search on the subnet list never moves the selection to a
\* greater index, and when it reports a match the selection is at a smaller
\* index than before.
C3_BackwardListNeverForward ==
    [][BackwardListSearch =>
          /\ currentItem' <= currentItem
          /\ statusline' = FoundBackward => currentItem' < currentItem]_vars

\* C4 (as the code has it): a forward search on the subnet list for a text
\* q that is not empty, from the current item c, selects the least index
\* above c whose item contains q and shows "/" and q; when there is none it
\* leaves the selection alone and reports that the pattern was not found.
C4_ForwardListNonEmpty ==
    [][(ForwardListSearch /\ inputText # <<>>) =>
          LET a == MatchesAfter(inputText)
          IN  IF a # {}
              THEN currentItem' = Least(a) /\ statusline' = FoundForward
              ELSE /\ currentItem' = currentItem
                   /\ statusline' = NotFoundText(inputText)]_vars

\* C4 as the specification states it, for every text q: the empty text is
\* contained in every item.
C4_ForwardListAnyText ==
    [][ForwardListSearch =>
          LET a == MatchesAfter(inputText)
          IN  IF a # {}
              THEN currentItem' = Least(a) /\ statusline' = FoundForward
              ELSE /\ currentItem' = currentItem
                   /\ statusline' = NotFoundText(inputText)]_vars

\* A forward search on the list has found a later item for a typed text.
C4_Witness ==
    /\ focus = "subnetList"
    /\ inputText # <<>>
    /\ statusline = FoundForward
    /\ currentItem >= 1

\* C5 (as the code has it): a backward search on the table, from the
\* selected row r, scans the rows r - 1 down to 1: it selects the first of
\* them that has a cell containing the text, makes the rows selectable and
\* shows "?" and the text; when none of them matches it leaves the
\* selection alone and reports that the pattern was not found.  Row 0 is
\* never scanned.
C5_BackwardTableAboveHeader ==
    [][BackwardTableSearch =>
          LET m == { i \in 1..(selectedRow - 1) : RowMatches(i, inputText) }
          IN  IF m # {}
              THEN /\ selectedRow' = Greatest(m)
                   /\ rowsSelectable'
                   /\ statusline' = FoundBackward
              ELSE /\ selectedRow' = selectedRow
                   /\ rowsSelectable' = rowsSelectable
                   /\ statusline' = NotFoundText(inputText)]_vars

\* C5 as the specification states it: the scan goes down to row 0.
C5_BackwardTableToRowZero ==
    [][BackwardTableSearch =>
          LET m == { i \in 0..(selectedRow - 1) : RowMatches(i, inputText) }
          IN  IF m # {}
              THEN /\ selectedRow' = Greatest(m)
                   /\ rowsSelectable'
                   /\ statusline' = FoundBackward
              ELSE /\ selectedRow' = selectedRow
                   /\ statusline' = NotFoundText(inputText)]_vars

\* A backward search on the table has found a row for the text "0.0.0"
\* (which no backward search on the list can find: one item contains it).
C5_Witness ==
    /\ focus = "table"
    /\ inputText = <<"0", ".", "0", ".", "0">>
    /\ statusline = FoundBackward
    /\ rowsSelectable
    /\ selectedRow >= 1

\* C6: a forward search on the table only ever selects a row below the
\* selected row, a backward search only a row above it, and a backward
\* search from row 0 reports that the pattern was not found and leaves the
\* selection as it is.
C6_TableSearchDirection ==
    [][/\ ForwardTableSearch =>
             \/ selectedRow' > selectedRow /\ statusline' = FoundForward
             \/ /\ selectedRow' = selectedRow
                /\ statusline' = NotFoundText(inputText)
       /\ BackwardTableSearch =>
             /\ \/ selectedRow' < selectedRow /\ statusline' = FoundBackward
                \/ /\ selectedRow' = selectedRow
                   /\ statusline' = NotFoundText(inputText)
             /\ selectedRow = 0 =>
                    /\ statusline' = NotFoundText(inputText)
                    /\ selectedRow' = 0
                    /\ rowsSelectable' = rowsSelectable]_vars

\* A forward search on the table has found a row for the text "0.0.0"
\* (which no forward search on the list can find: only item 0 contains it).
C6_Witness ==
    /\ focus = "table"
    /\ inputText = <<"0", ".", "0", ".", "0">>
    /\ statusline = FoundForward
    /\ rowsSelectable
    /\ selectedRow >= 1

\* C7: when the answer to a delete has a result code other than 0, the
\* text of the answer is shown on the status line and nothing else
\* happens: no panic, no other request, the table as it was.
C7_DeleteNonzeroResult ==
    [][(Delete /\ reply'.kind = "ok" /\ reply'.result # 0) =>
          /\ statusline' = reply'.text
          /\ phase' = "running"
          /\ table' = table
          /\ shown' = shown
          /\ Len(sent') = 1
          /\ sent'[1].command = lease4Del]_vars

\* A delete was answered "lease not found" with result code 1.
C7_Witness ==
    /\ phase = "running"
    /\ Len(sent) = 1
    /\ sent[1].command = lease4Del
    /\ reply.kind = "ok"
    /\ reply.result = 1
    /\ statusline = reply.text

DeleteBound ==
    focus = "table" /\ dispmode = displayLeases /\ rowsSelectable

C9_DeleteOnlyWhenBound ==
    [][/\ (sent' # <<>> /\ sent'[1].command = lease4Del) => DeleteBound
       /\ ((Delete \/ TypeD) /\ ~DeleteBound) =>
             /\ sent' = <<>>
             /\ phase' = phase
             /\ table' = table
             /\ statusline' = statusline]_vars

\* A delete was sent and answered with result code 0.
C9_Witness ==
    /\ DeleteBound
    /\ Len(sent) = 1
    /\ sent[1].command = lease4Del
    /\ reply.kind = "ok"
    /\ reply.result = 0

\* C10 (as the code has it): 'h' or Left on the table gives the focus to
\* the subnet list exactly when the column offset of the table is 0, and
\* otherwise leaves the focus on the table; 'l' or Right on the subnet list
\* gives the focus to the table whatever the column offset.
C10_LeftGuardedRightNot ==
    [][/\ (NavLeft /\ focus = "table") =>
             /\ (focus' = "subnetList") <=> (columnOffset = 0)
             /\ focus' \in {"subnetList", "table"}
       /\ (NavRight /\ focus = "subnetList") => focus' = "table"]_vars

\* C10 as the specification states it: a horizontal-navigation command
\* changes the focus only when the column offset is 0.
C10_FocusOnlyAtOffsetZero ==
    [][((NavLeft \/ NavRight) /\ focus' # focus) => columnOffset = 0]_vars

\* The table has the focus and is scrolled to the right, where 'h' scrolls
\* back and does not change the focus.
C10_Witness ==
    /\ phase = "running"
    /\ focus = "table"
    /\ columnOffset > 0

\* C11: 'q' and Escape stop the application only when the focus is not on
\* the search input.  No step that starts with the focus on statusinput
\* stops it: 'q' there is typed into the field, and Escape there shows the
\* status line again, gives the focus back to prev and changes nothing else.
C11_QuitOnlyOffSearchInput ==
    [][/\ (phase = "running" /\ phase' = "stopped") => focus # "statusinput"
       /\ (focus = "statusinput" /\ TypeQ) =>
             /\ phase' = "running"
             /\ inputText' = inputText \o <<"q">>
       /\ (focus = "statusinput" /\ CancelSearch) =>
             /\ phase' = "running"
             /\ page' = "line"
             /\ focus' = prev
             /\ UNCHANGED <<subnets, currentItem, dispmode, sortorder, table,
                            title, selectedRow, rowsSelectable, columnOffset,
                            statusline, inputText>>]_vars

\* 'q' was pressed in the search input and the application still runs.
C11_Witness ==
    /\ phase = "running"
    /\ focus = "statusinput"
    /\ page = "input"
    /\ Len(inputText) > 0
    /\ inputText[Len(inputText)] = "q"

\* C12: a committed search targets the panel that had the focus when the
\* search input was entered.  '/' on panel P stores P in prev, prev keeps
\* its value while statusinput has the focus, and Enter in statusinput runs
\* the forward search of prev with the typed text: only the selection of
\* that panel may change, the focus is back on it and the status line is
\* shown in place of the input.
C12_CommitTargetsEnteringPanel ==
    [][/\ (OnPanel /\ EnterSearch) =>
             /\ prev' = focus
             /\ focus' = "statusinput"
             /\ page' = "input"
       /\ (focus = "statusinput" /\ focus' = "statusinput") => prev' = prev
       /\ (focus = "statusinput" /\ CommitSearch) =>
             /\ prev \in {"subnetList", "table"}
             /\ focus' = prev
             /\ page' = "line"
             /\ prev = "subnetList" =>
                   /\ UNCHANGED <<selectedRow, rowsSelectable>>
                   /\ currentItem' = SearchForwardList(inputText, currentItem).item
                   /\ statusline' = SearchForwardList(inputText, currentItem).line
             /\ prev = "table" =>
                   /\ UNCHANGED currentItem
                   /\ selectedRow' =
                         SearchForwardTable(inputText, table, selectedRow,
                                            rowsSelectable).row
                   /\ statusline' =
                         SearchForwardTable(inputText, table, selectedRow,
                                            rowsSelectable).line]_vars

\* A search entered from the table found its text in a row of the table:
\* the row is selected, the table has the focus again and the status line
\* shows the text, while the subnet list is on another item than the one
\* a search of the list would have found.
C12_Witness ==
    /\ phase = "running"
    /\ prev = "table"
    /\ focus = "table"
    /\ page = "line"
    /\ inputText # <<>>
    /\ statusline = FoundForward
    /\ rowsSelectable
    /\ selectedRow > 0
    /\ ~ItemContains(currentItem, inputText)

\* C13: Escape in the search input runs no search.  The current item of
\* the subnet list, the selected row of the table, whether rows are
\* selectable and the text of the status line are unchanged, no request is
\* sent, the focus returns to the panel stored in prev when the search input
\* was entered, and the status line is shown again.
C13_CancelRunsNoSearch ==
    [][(focus = "statusinput" /\ CancelSearch) =>
          /\ UNCHANGED <<currentItem, selectedRow, rowsSelectable, statusline>>
          /\ UNCHANGED <<table, subnets, dispmode, sortorder, phase>>
          /\ sent' = <<>>
          /\ prev \in {"subnetList", "table"}
          /\ focus' = prev
          /\ prev' = prev
          /\ page' = "line"]_vars

\* A text was typed and the search input left by Escape: the focus is back
\* on the subnet list, the status line still shows what it showed at
\* startup, and the current item is not the one a search for the text would
\* have made current.
C13_Witness ==
    /\ phase = "running"
    /\ focus = "subnetList"
    /\ prev = "subnetList"
    /\ page = "line"
    /\ inputText # <<>>
    /\ statusline = url
    /\ SearchForwardList(inputText, currentItem).item # currentItem

\* C14: a cancelled search entry discards the typed input, so that the text
\* 'n' and 'N' search for is the one it was before the search input was
\* entered.  The text 'n' and 'N' read is inputText, empty at startup, and
\* as long as no search has run (the status line still shows what it showed
\* at startup) every entry of the search input has ended with Escape; the
\* claim then is that on a panel the text is still empty.
C14_CancelDiscardsInput ==
    (phase = "running" /\ OnPanel /\ statusline = url) => inputText = <<>>

\* C15: dispmode is always one of leases, reservations and subnet
\* information; 'm' advances it by one modulo 3, on a panel and in the
\* search input alike, so that three of them in a row restore it; and while
\* the application has not panicked the title of the table is the title of
\* dispmode.
C15_ModeCycleAndTitle ==
    [][/\ dispmode \in {displayLeases, displayReserv, displayInfo}
       /\ dispmode' \in {displayLeases, displayReserv, displayInfo}
       /\ (phase # "panicked") => title = TitleOf(dispmode)
       /\ (phase' # "panicked") => title' = TitleOf(dispmode')
       /\ (CycleMode \/ TypeM) =>
             /\ dispmode' = (dispmode + 1) % 3
             /\ dispmode' # dispmode
             /\ (((dispmode' + 1) % 3) + 1) % 3 = dispmode
       /\ (dispmode' # dispmode) => (CycleMode \/ TypeM)]_vars

\* The mode was cycled to the subnet information and the application runs.
C15_Witness ==
    /\ phase = "running"
    /\ dispmode = displayInfo
    /\ title = "Subnet Information"
    /\ shown.mode = displayInfo

\* C16: Enter on a subnet of the list sends exactly one lease4-get-all
\* request, for the id of the current subnet, when dispmode is leases, and
\* sends nothing when dispmode is reservations or subnet information; in
\* every case focus, dispmode and sortorder are left as they are.  With a
\* subnet in the list, a step that leaves the focus on the list, dispmode
\* and the current item as they are, and sends a request or changes the
\* table, can only be this Enter.
C16_SelectFetchesInLeaseMode ==
    [][(focus = "subnetList" /\ focus' = "subnetList" /\ Len(subnets) > 0
          /\ dispmode' = dispmode /\ currentItem' = currentItem
          /\ (Len(sent') > 0 \/ table' # table \/ shown' # shown
                \/ SelectSubnet)) =>
          /\ (dispmode = displayLeases) =>
                sent' = <<Request(lease4GetAll,
                                  <<subnets[currentItem + 1].Id>>)>>
          /\ (dispmode # displayLeases) => sent' = <<>>
          /\ UNCHANGED <<focus, dispmode, sortorder, currentItem>>
          /\ shown' = [mode |-> dispmode, subnet |-> currentItem]]_vars

\* A subnet other than the first was selected in lease mode and its leases
\* were fetched and shown.
C16_Witness ==
    /\ phase = "running"
    /\ dispmode = displayLeases
    /\ shown = [mode |-> displayLeases, subnet |-> currentItem]
    /\ currentItem > 0
    /\ Len(sent) = 1
    /\ sent[1] = Request(lease4GetAll, <<subnets[currentItem + 1].Id>>)
    /\ Len(table) > 1

\* C17: sortorder is changed only by a click on a header cell of the lease
\* table while dispmode is leases.  Selecting a subnet, cycling dispmode,
\* moving the focus, searching and deleting leave it as it is, and in
\* reservations and subnet-information mode no header cell has a clicked
\* function: the table then shown was built for that mode.
C17_SortOrderChangesOnlyByToggle ==
    [][/\ (sortorder' # sortorder) =>
             /\ dispmode = displayLeases
             /\ shown.mode = displayLeases
             /\ \E col \in ClickColumns : SortToggle(col)
       /\ (phase = "running" /\ Len(table) > 0) => shown.mode = dispmode
       /\ (dispmode' # dispmode \/ focus' = "subnetList"
             \/ statusline' # statusline \/ shown'.subnet # shown.subnet) =>
             sortorder' = sortorder]_vars

\* The sort order was changed by a click and then kept while the mode was
\* cycled away from the leases.
C17_Witness ==
    /\ phase = "running"
    /\ sortorder[1] = [Column |-> 1, Asc |-> FALSE]
    /\ dispmode = displayReserv
    /\ shown.mode = displayReserv
    /\ Len(table) > 0

\* The leases the server listed for the lease table t: the rows of t stand
\* one for one for the leases of a list of LeaseLists.
Fetched(t) == CHOOSE ls \in LeaseLists : Len(ls) = Len(t) - 1

\* The lease table UpdateTable builds from the lease list ls for subnet k
\* under the sort order so.
Rendered(ls, k, so) ==
    LET r == CHOOSE x \in SliceSorted(ls, LeaseLess(ls, so), sortTies) : TRUE
    IN  <<LeaseHeader>> \o [i \in 1..Len(r) |-> LeaseRow(r[i], subnets[k + 1])]

\* A click on header cell col that found the server with as many leases as
\* the table showed before.
ToggleSameLeases(col) ==
    /\ shown.mode = displayLeases
    /\ SortToggle(col)
    /\ phase' = "running"
    /\ Len(table') = Len(table)

\* C18 (as the code has it): two clicks in a row on the header cell of the
\* column the table is sorted by bring sortorder back to what it was, and if
\* the server lists the same leases the rows are back in the order they had:
\* the table is the one UpdateTable builds from the leases and sortorder.
C18_DoubleToggleActiveColumn ==
    [][\A col \in ClickColumns :
          (sortorder[1].Column = col /\ ToggleSameLeases(col)) =>
             /\ sortorder'[1] = [Column |-> col, Asc |-> ~sortorder[1].Asc]
             /\ sortfunc(sortorder', col) = sortorder
             /\ table' = Rendered(Fetched(table'), shown.subnet, sortorder')
             /\ table = Rendered(Fetched(table), shown.subnet, sortorder)
             /\ Rendered(Fetched(table'), shown.subnet,
                         sortfunc(sortorder', col)) = table]_vars

\* C18 as the specification states it: two clicks in a row on the same
\* header cell, whichever it is, bring sortorder back to what it was.
C18_DoubleToggleAnyColumn ==
    [][\A col \in ClickColumns :
          ToggleSameLeases(col) => sortfunc(sortorder', col) = sortorder]_vars

\* The table is sorted by the address, ascending, which takes two clicks
\* on header cells, the last of them on the address; it shows more than one
\* lease, and one more click would change the order of its rows.
C18_Witness ==
    /\ phase = "running"
    /\ shown.mode = displayLeases
    /\ sortorder[1] = [Column |-> 1, Asc |-> TRUE]
    /\ Len(table) > 2
    /\ table = Rendered(Fetched(table), shown.subnet, sortorder)
    /\ table # Rendered(Fetched(table), shown.subnet, sortfunc(sortorder, 1))

\* Whether r is the stable sort of the lease list ls by so: an arrangement
\* of ls, non-decreasing (ascending) or non-increasing (descending) under
\* Compare on the column of so, with the leases that compare equal in the
\* order they have in ls.
StableSorted(ls, r, so) ==
    /\ r \in Perms(ls)
    /\ \A i, j \in 1..Len(r) :
          i < j =>
             LET c == Compare(r[i], r[j], so[1].Column)
             IN  /\ IF so[1].Asc THEN c <= 0 ELSE c >= 0
                 /\ (c = 0) => Pos(ls, r[i]) < Pos(ls, r[j])

Rows(t) == Tail(t)
Reverse(s) == [i \in 1..Len(s) |-> s[Len(s) + 1 - i]]

\* Whether no two leases of ls compare equal on column col.
NoTies(ls, col) ==
    \A i, j \in 1..Len(ls) : (i # j) => Compare(ls[i], ls[j], col) # 0

\* C20 (as the code has it): when no two of the leases compare equal on
\* column C, the rows sorted by C in one direction are the reverse of the
\* rows sorted by C in the other direction.  A click on the header cell of
\* the active column sorts the same leases in the other direction.
C20_ReverseIsFlipWithoutTies ==
    [][\A col \in ClickColumns :
          (sortorder[1].Column = col /\ ToggleSameLeases(col)
             /\ NoTies(Fetched(table), col)) =>
                /\ sortorder'[1].Asc = ~sortorder[1].Asc
                /\ Rows(table') = Reverse(Rows(table))]_vars

\* C20 as the specification states it: for every lease sequence, the rows
\* sorted by C in one direction are the reverse of the rows sorted by C in
\* the other direction.
C20_ReverseIsFlip ==
    [][\A col \in ClickColumns :
          (sortorder[1].Column = col /\ ToggleSameLeases(col)) =>
                Rows(table') = Reverse(Rows(table))]_vars

\* The table shows more than one lease sorted by the address, descending,
\* no two of them with the same address: its rows are the reverse of the
\* rows in ascending order, and not the same.
C20_Witness ==
    /\ phase = "running"
    /\ shown.mode = displayLeases
    /\ sortorder[1] = [Column |-> 1, Asc |-> FALSE]
    /\ Len(table) > 2
    /\ NoTies(Fetched(table), 1)
    /\ Rows(table) = Reverse(Rows(Rendered(Fetched(table), shown.subnet,
                                           sortfunc(sortorder, 1))))
    /\ Rows(table) # Reverse(Rows(table))

\* C21: Compare is antisymmetric on every column: for the leases l1 and l2
\* of a lease table and every column c of hostname, address, hardware
\* address, state, cltt and client id, Compare(l1, l2, c) is the negative
\* of Compare(l2, l1, c); and the addresses are compared by their value, so
\* that 10.0.0.9 is less than 10.0.0.10 and stands above it in a table
\* sorted by the address, ascending.
C21_CompareAntisymmetric ==
    (phase = "running" /\ shown.mode = displayLeases /\ Len(table) > 0) =>
        LET ls == Fetched(table)
        IN  /\ \A i, j \in 1..Len(ls) :
                  \A c \in 0..5 :
                     Compare(ls[i], ls[j], c) = -Compare(ls[j], ls[i], c)
            /\ \A i, j \in 1..Len(ls) :
                  (ls[i].IpAddress = IpA /\ ls[j].IpAddress = IpB)
                     => Compare(ls[i], ls[j], 1) = -1
            /\ (sortorder[1] = [Column |-> 1, Asc |-> TRUE]) =>
                  \A r1, r2 \in 1..(Len(table) - 1) :
                     (GetCell(table, r1, 1) = IpA /\ GetCell(table, r2, 1) = IpB)
                        => r1 < r2

\* A lease table sorted by the address, ascending, shows 10.0.0.9 in the
\* row above 10.0.0.10.
C21_Witness ==
    /\ phase = "running"
    /\ shown.mode = displayLeases
    /\ sortorder[1] = [Column |-> 1, Asc |-> TRUE]
    /\ \E r \in 1..(Len(table) - 2) :
          /\ GetCell(table, r, 1) = IpA
          /\ GetCell(table, r + 1, 1) = IpB

\* The value of the network address of subnet sn, the text before "/" read
\* as a number of four bytes.
NetworkValue(sn) ==
    LET b == ParseIP(Split(sn.Subnet, "/")[1])
    IN  ((b[1] * 256 + b[2]) * 256 + b[3]) * 256 + b[4]

\* C22: after startup the subnet list is a permutation of the subnets the
\* server listed for config-get, non-decreasing by the value of the network
\* address, and it is never changed afterwards: index i of the list names
\* the same subnet for the rest of the session.
C22_SubnetsSortedAndFixed ==
    [][/\ (phase = "init" /\ phase' = "running") =>
             /\ subnets' \in Perms(remoteConfig)
             /\ \A i, j \in 1..Len(subnets') :
                   (i < j) => NetworkValue(subnets'[i]) <= NetworkValue(subnets'[j])
       /\ (phase # "init") => subnets' = subnets
       /\ remoteConfig' = remoteConfig]_vars

\* The application runs with the subnets in another order than the server
\* listed them in.
C22_Witness ==
    /\ phase = "running"
    /\ Len(subnets) > 1
    /\ subnets # remoteConfig
    /\ currentItem > 0

\* Whether subnet sn has a reservation of the address ip.
Reserves(sn, ip) ==
    \E k \in 1..Len(sn.Reservations) : sn.Reservations[k].IpAddress = ip

\* C23: a row of the lease table is marked (its hostname cell starts with
\* "*") if and only if the address of its lease is the address of a
\* reservation of the subnet the table was built for; a reservation of
\* another subnet marks no row.
C23_FlagIffReservedInSubnet ==
    (phase = "running" /\ shown.mode = displayLeases /\ Len(table) > 0) =>
        \A r \in 1..(Len(table) - 1) :
            \E i \in 1..Len(Fetched(table)) :
                LET l == Fetched(table)[i]
                IN  /\ GetCell(table, r, 1) = l.IpAddress
                    /\ GetCell(table, r, 0) =
                          IF Reserves(subnets[shown.subnet + 1], l.IpAddress)
                          THEN <<"*">> \o l.Hostname
                          ELSE l.Hostname

\* The lease table of a subnet shows, without the mark, a lease whose
\* address another subnet has a reservation of.
C23_Witness ==
    /\ phase = "running"
    /\ shown.mode = displayLeases
    /\ \E r \in 1..(Len(table) - 1) :
          /\ ~Reserves(subnets[shown.subnet + 1], GetCell(table, r, 1))
          /\ \E s \in 1..Len(subnets) : Reserves(subnets[s], GetCell(table, r, 1))
          /\ GetCell(table, r, 0)[1] # "*"

\* C24: when every answer of the server is well formed, no command but
\* quit ends the session: a step that leaves the event loop after an
\* exchange that ended well, or without an exchange, is 'q' or Escape on a
\* panel.
C24_OnlyQuitEndsSession ==
    [][(phase = "running" /\ phase' # "running"
          /\ reply'.kind \in {"none", "ok"}) =>
             (Quit /\ phase' = "stopped")]_vars

\* C25: every lease4-del request carries the address of a lease shown in a
\* row of the lease table at the time of the key: never the text of the
\* header row, the empty text of a cell that was never set, or any other
\* text.
C25_DeleteSendsDisplayedLease ==
    [][\A i \in 1..Len(sent') :
          (sent'[i].command = lease4Del) =>
             /\ shown.mode = displayLeases
             /\ \E r \in 1..(Len(table) - 1) :
                   /\ sent'[i].arguments = GetCell(table, r, 1)
                   /\ \E k \in 1..Len(Fetched(table)) :
                         Fetched(table)[k].IpAddress = sent'[i].arguments]_vars

\* C26: while the search input has the focus, a typed character only edits
\* the text of the input: dispmode, the title and the cells of the table
\* and sortorder are unchanged and nothing is sent to the server, until
\* Enter or Escape gives the focus back to a panel.
C26_TypingOnlyEditsQuery ==
    [][(focus = "statusinput" /\ focus' = "statusinput"
          /\ phase' = "running") =>
             /\ UNCHANGED <<dispmode, title, table, sortorder>>
             /\ sent' = <<>>]_vars

\* C27: 'm' rebuilds the table for the subnet the table showed before it
\* (the subnet of the last Enter on the subnet list), also when the current
\* item of the list has been moved since without a new Enter.
C27_CycleKeepsShownSubnet ==
    [][(dispmode' # dispmode /\ shown.subnet >= 0 /\ phase' = "running") =>
          shown'.subnet = shown.subnet]_vars

=============================================================================
